---- MODULE Spec2Model ----
(***************************************************************************)
(* Light Dust Content Manager: the client-scoped autosave and status       *)
(* transition engine of App (login, fetchPosts, the realtime subscription, *)
(* handleUpdatePost with its debounce timers, handleAutoPost and the       *)
(* Approve All button), modelled as one browser session working against    *)
(* the shared posts table, with other sessions as an environment writer.   *)
(*                                                                         *)
(* Time is kept as the remaining delay of every scheduled timer.  The      *)
(* event loop is taken to be idle between events: a timer callback runs    *)
(* when its delay has elapsed, before time passes further and before any   *)
(* later user event is handled.                                            *)
(***************************************************************************)
EXTENDS Integers, Sequences, FiniteSets, TLC

\* ---------------------------------------------------------------- bounds
MaxEdits == 2
MaxSyncEdits == 1
MaxBurstEdits == 3
MaxFetch == 1
MaxNotif == 1
MaxForeign == 1
MaxSelect == 2
MaxBulk == 1
MaxStatusEdits == 2
MaxCreate == 2
MaxOtherCreate == 1
MaxNow == 1
TickMs == 250

\* ------------------------------------------------------ program constants
DebounceMs == 500

NoClient == "none"
Clients == {"seam", "ld", "ab"}
MasterPin == <<"1", "9", "9", "1">>

\* clients.pin of the rows the migrations insert
Pin ==
  [c \in Clients |->
     CASE c = "seam" -> <<"1", "9", "9", "1">>
       [] c = "ld" -> <<"5", "6", "7", "8">>
       [] OTHER -> <<"3", "8", "4", "7">>]

\* secrets a user may submit: the three PINs, an unassigned one, a proper
\* prefix and an extension of a PIN, and the empty string
Secrets ==
  {Pin[c] : c \in Clients} \cup
  {<<"0", "0", "0", "0">>, <<"5", "6">>, <<"5", "6", "7", "8", "9">>, <<>>}

\* clients.late_profile_ids
LateProfileIds == [c \in Clients |-> IF c = "ld" THEN {"ig1", "fb1"} ELSE {}]

\* the profiles the scheduling service knows, with their platform
LateProfiles == {[id |-> "ig1", platform |-> "instagram"],
                 [id |-> "fb1", platform |-> "facebook"]}

PostIds == {"p1", "p2", "p3"}
ClientOf == [p \in PostIds |-> IF p = "p3" THEN "ab" ELSE "ld"]
\* posts.created_at: p1 and p2 come from one multi-row insert and carry the
\* same timestamp
CreatedAt == [p \in PostIds |-> IF p = "p3" THEN 2 ELSE 1]
\* posts.image_url: a public URL, nothing, a base64 data URL
ImageUrl == [p \in PostIds |-> CASE p = "p1" -> "http" [] p = "p2" -> "" [] OTHER -> "data"]

\* posts.date is TEXT 'YYYY-MM-DD'; DateRank is its text order, MonthOf the
\* month new Date(date).getMonth() yields
Dates == {"2025-01-10", "2025-02-05"}
DateRank == [d \in Dates |-> IF d = "2025-01-10" THEN 1 ELSE 2]
MonthOf == [d \in Dates |-> IF d = "2025-01-10" THEN 1 ELSE 2]
\* the month tab; it is left at its initial value
selectedMonth == 1
Fields == {"status", "date"}
Keys == PostIds \X Fields
\* the values the modelled edits choose among
FieldValues(f) == IF f = "status" THEN {"Draft", "Approved"} ELSE Dates
\* the values another session writes
ForeignValues(f) == IF f = "status" THEN {"Posted"} ELSE {"2025-02-05"}

VARIABLES
  store,              \* the posts table: id -> [status, date]
  isAuthenticated, isMasterAccount, currentClient, showClientSelector,
  loginError, allClients,
  posts,              \* in-memory record set (a sequence of Post)
  storageError,
  debounceTimers,     \* timerKey -> timer id (0: no entry)
  timers,             \* scheduled, unfired setTimeout callbacks
  ops,                \* timer callbacks suspended at an await
  fetches,            \* fetchPosts calls suspended at their await
  notifs,             \* undelivered postgres_changes events of the channel
  bulk,               \* the Approve All handler suspended at Promise.all
  channels,           \* the realtime channels the session holds open
  alerts,             \* window.alert dialogs shown so far
  now,                \* Date.now() of the browsers, in ms
  editorId,           \* the id the open new-post editor was mounted with
  created,            \* the rows the creation paths sent to insert, in order
  composed,           \* the last content handleAutoPost composed, with its inputs
  sent,               \* the calls of schedulePost made so far
  modal,              \* the Schedule Posts modal: profiles loaded and selected
  sched,              \* handleSchedulePosts suspended in its loop
  noteRows,           \* posts.notes, notes_updated_at and notes_notified
  job,                \* the run of the notes notification job, if any
  emailed,            \* the notes included in emails that were sent
  submitted,          \* history: the secret of the last login attempt
  hist                \* history: counters the properties speak about

vars == <<store, isAuthenticated, isMasterAccount, currentClient,
          showClientSelector, loginError, allClients, channels, posts,
          storageError, debounceTimers, timers, ops, fetches, notifs, bulk,
          alerts, now, editorId, created, composed, sent, modal, sched,
          noteRows, job, emailed, submitted, hist>>

sessionVars == <<isAuthenticated, isMasterAccount, currentClient,
                 showClientSelector, loginError, allClients, channels>>

createVars == <<alerts, now, editorId, created>>

publishVars == <<composed, sent, modal, sched>>

notesVars == <<noteRows, job, emailed>>

\* ---------------------------------------------------------------- helpers
SetField(rec, f, v) == IF f = "status" THEN [rec EXCEPT !.status = v]
                                       ELSE [rec EXCEPT !.date = v]

\* mapDbToPost
mapDbToPost(id, row) ==
  [id |-> id, client_id |-> ClientOf[id], status |-> row.status, date |-> row.date]

\* .order('date').order('created_at'): a before b is allowed
OrderedBefore(a, b) ==
  \/ DateRank[store[a].date] < DateRank[store[b].date]
  \/ store[a].date = store[b].date /\ CreatedAt[a] <= CreatedAt[b]

\* the query without its client filter
RowsOfAnyClient(c) == PostIds

\* .eq('client_id', c)
RowsOfClient(c) == {p \in PostIds : ClientOf[p] = c}

\* every row order the query of fetchPosts can return for client c: the
\* rows of c, sorted by (date, created_at); rows equal on both keys come in
\* an order the database chooses
QueryResults(c) ==
  LET ids == RowsOfClient(c)
      n == Cardinality(ids)
  IN {s \in [1..n -> ids] :
        /\ \A i, j \in 1..n : i # j => s[i] # s[j]
        /\ \A i, j \in 1..n : i < j => OrderedBefore(s[i], s[j])}

RowsToPosts(s) == [i \in 1..Len(s) |-> mapDbToPost(s[i], store[s[i]])]

\* a lookup that matches a PIN by its beginning
ClientsByPinPrefix(input) ==
  {c \in Clients : Len(input) <= Len(Pin[c]) /\ SubSeq(Pin[c], 1, Len(input)) = input}

\* .eq('pin', passwordInput)
ClientsByPin(input) == {c \in Clients : Pin[c] = input}

\* a postgres_changes event reaches the session's channel while it is open
Notify(n) == IF isAuthenticated /\ n < MaxNotif THEN n + 1 ELSE n

\* fetchPosts called with currentClient c: returns at once without a client,
\* else suspends at the query
CallFetch(fs, c) ==
  IF c = NoClient
  THEN fs
  ELSE fs \cup {[client |-> c, state |-> "sent", data |-> <<>>]}

\* an effect whose cleanup does not remove the channel
EffectChannelsLeak(chs, c) == chs \cup {[cc |-> c]}

\* the subscription effect re-runs: the cleanup of the previous run removes
\* its channel, then a channel is opened whose callback calls the fetchPosts
\* of this render (currentClient c)
EffectChannels(chs, c) == {[cc |-> c]}

\* the model follows at most MaxFetch fetches at a time; a step that calls
\* fetchPosts waits for room
FetchRoom == Cardinality(fetches) < MaxFetch

\* nothing composed yet
NoContent == [caption |-> <<>>, hashtags |-> <<>>, description |-> <<>>,
              content |-> <<>>, done |-> FALSE]

\* showScheduleModal false, lateProfiles [] and selectedProfiles []
ModalClosed == [open |-> FALSE, loading |-> FALSE, cc |-> NoClient,
                lateProfiles |-> {}, selectedProfiles |-> {}]

\* handleSchedulePosts is not running
SchedIdle == [active |-> FALSE, queue |-> <<>>, platforms |-> {}, cc |-> NoClient,
              successCount |-> 0, errorCount |-> 0]

\* no post has notes: notes null, notes_notified false by default
NoNotes == [p \in PostIds |-> [notes |-> "", fresh |-> FALSE, notified |-> FALSE]]

\* no run of the notification job
JobIdle == [pc |-> "idle", posts |-> {}]

HistInit ==
  [edits |-> 0, foreign |-> 0, selects |-> 0, bulks |-> 0,
   \* openings of the schedule modal, profile toggles, clicks on Schedule
   opens |-> 0, toggles |-> 0, schedules |-> 0,
   \* writes of notes, runs of the notification job
   noteEdits |-> 0, runs |-> 0,
   \* posts for which a schedulePost of the manual action has succeeded
   scheduled |-> {},
   \* per timerKey: the current burst of edits (each made while the timer of
   \* the previous one was still running): number of edits, value of the
   \* last one, number of writes issued by its timers, value last written
   burstN |-> [k \in Keys |-> 0],
   burstLast |-> [k \in Keys |-> ""],
   burstW |-> [k \in Keys |-> 0],
   burstWv |-> [k \in Keys |-> ""],
   \* per post: status edits, edits that took the in-memory status from a
   \* non-Approved value to Approved, handleAutoPost invocations,
   \* schedulePost calls, successful debounced writes of status Approved,
   \* outcome of the last debounced write of the status
   sedits |-> [p \in PostIds |-> 0],
   edges |-> [p \in PostIds |-> 0],
   fired |-> [p \in PostIds |-> 0],
   calls |-> [p \in PostIds |-> 0],
   okApproved |-> [p \in PostIds |-> 0],
   wres |-> [p \in PostIds |-> "none"],
   \* posts whose single status edit so far was For Approval -> Approved
   faEdge |-> {},
   \* posts whose status another session or Approve All wrote
   otherStatus |-> {},
   \* posts Approve All found with a status other than Approved
   bulkFrom |-> {},
   \* per client: the rows of the last fetch query since the last write to
   \* the table; whether two such queries ever differed
   sel |-> [c \in Clients |-> <<>>],
   selDiff |-> FALSE]

\* the session before the login, around a table that holds rows
InitWith(rows) ==
  /\ store = rows
  /\ isAuthenticated = FALSE
  /\ isMasterAccount = FALSE
  /\ currentClient = NoClient
  /\ showClientSelector = FALSE
  /\ loginError = FALSE
  /\ allClients = {}
  /\ posts = <<>>
  /\ storageError = FALSE
  /\ debounceTimers = [k \in Keys |-> 0]
  /\ timers = {}
  /\ ops = {}
  /\ fetches = {}
  /\ notifs = 0
  /\ bulk = [active |-> FALSE, pending |-> {}, cc |-> NoClient]
  /\ channels = {}
  /\ alerts = 0
  /\ now = 0
  /\ editorId = ""
  /\ created = <<>>
  /\ composed = NoContent
  /\ sent = {}
  /\ modal = ModalClosed
  /\ sched = SchedIdle
  /\ noteRows = NoNotes
  /\ job = JobIdle
  /\ emailed = {}
  /\ submitted = <<"-">>
  /\ hist = HistInit

Init ==
  InitWith([p \in PostIds |->
              [status |-> CASE p = "p1" -> "For Approval"
                            [] p = "p2" -> "Generated"
                            [] OTHER -> "Draft",
               date |-> IF p = "p2" THEN "2025-02-05" ELSE "2025-01-10"]])

\* ------------------------------------------------------------- handleLogin
\* The two queries of handleLogin answer (qOk, listOk) or fail.
handleLogin(input, qOk, listOk) ==
  /\ ~isAuthenticated
  /\ submitted' = input
  /\ LET clients == ClientsByPin(input) IN
     IF ~qOk \/ clients = {}
     THEN /\ loginError' = TRUE
          /\ UNCHANGED <<isAuthenticated, isMasterAccount, currentClient,
                         showClientSelector, allClients, channels, fetches>>
     ELSE LET client == CHOOSE c \in clients : TRUE IN
          /\ IF input = MasterPin
             THEN /\ isMasterAccount' = TRUE
                  /\ IF listOk
                     THEN allClients' = Clients /\ showClientSelector' = TRUE
                     ELSE UNCHANGED <<allClients, showClientSelector>>
                  /\ UNCHANGED currentClient
             ELSE /\ isMasterAccount' = FALSE
                  /\ currentClient' = client
                  /\ UNCHANGED <<allClients, showClientSelector>>
          /\ isAuthenticated' = TRUE
          /\ loginError' = FALSE
          \* the subscription effect runs after the render: fetchPosts()
          \* and a channel is opened
          /\ fetches' = CallFetch(fetches, currentClient')
          /\ channels' = EffectChannels(channels, currentClient')
  /\ UNCHANGED <<store, posts, storageError, debounceTimers, timers, ops,
                 notifs, bulk, createVars, publishVars, notesVars, hist>>

Login == \E input \in Secrets, qOk \in BOOLEAN, listOk \in BOOLEAN :
           handleLogin(input, qOk, listOk)

\* ------------------------------------------------------------ selectClient
\* The client selector, or a row of the Client Management tab; both list
\* allClients without the master's own row.  A changed currentClient re-runs
\* the subscription effect: the old channel is removed, fetchPosts is called
\* and a new channel is opened.
\* room: whether the fetches in flight leave room for one more
selectClientWhen(c, room) ==
  /\ isAuthenticated /\ isMasterAccount
  /\ \A t \in timers : t.left > 0
  /\ c \in allClients /\ Pin[c] # MasterPin
  /\ hist.selects < MaxSelect
  /\ currentClient' = c
  /\ showClientSelector' = FALSE
  /\ IF c # currentClient
     THEN /\ room
          /\ notifs' = 0
          /\ fetches' = CallFetch(fetches, c)
          /\ channels' = EffectChannels(channels, c)
     ELSE UNCHANGED <<notifs, fetches, channels>>
  /\ hist' = [hist EXCEPT !.selects = @ + 1]
  /\ UNCHANGED <<store, isAuthenticated, isMasterAccount, loginError,
                 allClients, posts, storageError, debounceTimers, timers, ops,
                 bulk, submitted, notesVars, publishVars, createVars>>

selectClient(c) == selectClientWhen(c, FetchRoom)

SelectClient == \E c \in Clients : selectClient(c)

\* the Switch Client button
OpenClientSelector ==
  /\ isAuthenticated /\ isMasterAccount /\ ~showClientSelector
  /\ \A t \in timers : t.left > 0
  /\ showClientSelector' = TRUE
  /\ UNCHANGED <<store, isAuthenticated, isMasterAccount, currentClient,
                 loginError, allClients, channels, posts, storageError, debounceTimers,
                 timers, ops, fetches, notifs, bulk, submitted, notesVars, publishVars, createVars, hist>>

\* --------------------------------------------------------------- fetchPosts
\* the select reaches the database and answers with rows, or fails
FetchQuery(f, ok) ==
  /\ f \in fetches /\ f.state = "sent"
  /\ IF ok
     THEN \E s \in QueryResults(f.client) :
            /\ fetches' = (fetches \ {f}) \cup
                 {[client |-> f.client, state |-> "ok", data |-> RowsToPosts(s)]}
            /\ hist' = [hist EXCEPT
                 !.sel[f.client] = s,
                 !.selDiff = @ \/ (hist.sel[f.client] # <<>> /\ hist.sel[f.client] # s)]
     ELSE /\ fetches' = (fetches \ {f}) \cup
                 {[client |-> f.client, state |-> "err", data |-> <<>>]}
          /\ UNCHANGED hist
  /\ UNCHANGED <<store, sessionVars, posts, storageError, debounceTimers,
                 timers, ops, notifs, bulk, submitted, notesVars, publishVars, createVars>>

\* the response arrives: setPosts(data.map(mapDbToPost)), setStorageError(null),
\* or on an error setStorageError("Failed to load posts from database.")
FetchDone(f) ==
  /\ f \in fetches /\ f.state \in {"ok", "err"}
  /\ fetches' = fetches \ {f}
  /\ IF f.state = "ok"
     THEN posts' = f.data /\ storageError' = FALSE
     ELSE storageError' = TRUE /\ UNCHANGED posts
  /\ UNCHANGED <<store, sessionVars, debounceTimers, timers, ops, notifs,
                 bulk, submitted, notesVars, publishVars, createVars, hist>>

FetchQueryStep == \E f \in fetches : FetchQuery(f, TRUE)

FetchFailStep == \E f \in fetches : FetchQuery(f, FALSE)

FetchDoneStep == \E f \in fetches : FetchDone(f)

\* the postgres_changes callback of the subscription: fetchPosts()
NotifDeliverWhen(room) ==
  /\ isAuthenticated /\ notifs > 0
  /\ room \/ currentClient = NoClient
  /\ notifs' = notifs - 1
  /\ \E ch \in channels : fetches' = CallFetch(fetches, ch.cc)
  /\ UNCHANGED <<store, sessionVars, posts, storageError, debounceTimers,
                 timers, ops, bulk, submitted, notesVars, publishVars, createVars, hist>>

NotifDeliver == NotifDeliverWhen(FetchRoom)

\* the Refresh Data button: onClick={fetchPosts}
Refresh ==
  /\ isAuthenticated /\ ~showClientSelector /\ currentClient # NoClient
  /\ \A t \in timers : t.left > 0
  /\ FetchRoom
  /\ fetches' = CallFetch(fetches, currentClient)
  /\ UNCHANGED <<store, sessionVars, posts, storageError, debounceTimers,
                 timers, ops, notifs, bulk, submitted, notesVars, publishVars, createVars, hist>>

\* another session's write of one column of one row
ForeignWrite(p, f, v) ==
  /\ hist.foreign < MaxForeign
  /\ store' = [store EXCEPT ![p] = SetField(@, f, v)]
  /\ notifs' = Notify(notifs)
  /\ hist' = [hist EXCEPT !.foreign = @ + 1,
                          !.otherStatus = IF f = "status" THEN @ \cup {p} ELSE @,
                          !.sel = [c \in Clients |-> <<>>]]
  /\ UNCHANGED <<sessionVars, posts, storageError, debounceTimers, timers,
                 ops, fetches, bulk, submitted, notesVars, publishVars, createVars>>

Foreign == \E p \in PostIds, f \in Fields : \E v \in ForeignValues(f) : ForeignWrite(p, f, v)

\* a session of another tenant writes one of its own rows while this session
\* is open
OtherTenantWrite ==
  /\ isAuthenticated /\ currentClient # NoClient
  /\ \E p \in PostIds, f \in Fields : \E v \in ForeignValues(f) :
       ClientOf[p] # currentClient /\ ForeignWrite(p, f, v)

\* another session of this session's tenant sets the status of one of the
\* tenant's rows
SameTenantWrite ==
  /\ isAuthenticated /\ currentClient # NoClient
  /\ \E p \in PostIds : \E v \in ForeignValues("status") :
       ClientOf[p] = currentClient /\ ForeignWrite(p, "status", v)

\* --------------------------------------------------------- handleUpdatePost
\* filteredPosts: the rows of the selected month
Visible(id) ==
  \E i \in 1..Len(posts) : posts[i].id = id /\ MonthOf[posts[i].date] = selectedMonth

\* posts.find(p => p.id === id)
PostOf(id) == posts[CHOOSE i \in 1..Len(posts) : posts[i].id = id]

\* a timer key that leaves the field out
timerKeyIdOnly(id, field) == <<id, "status">>

\* const timerKey = `${id}-${field}`
timerKey(id, field) == <<id, field>>

\* a trigger that only looks at the new value
isStatusChangeAnyPrevious(id, field, value) ==
  field = "status" /\ value = "Approved"

\* a trigger that only reacts to Draft -> Approved
isStatusChangeFromDraft(id, field, value) ==
  field = "status" /\ value = "Approved" /\ PostOf(id).status = "Draft"

isStatusChange(id, field, value) ==
  field = "status" /\ value = "Approved" /\ PostOf(id).status # "Approved"

handleUpdatePost(id, field, value) ==
  /\ isAuthenticated /\ ~showClientSelector /\ currentClient # NoClient
  /\ \A t \in timers : t.left > 0
  /\ Visible(id)
  /\ LET key == timerKey(id, field)
         tid == hist.edits + 1
         old == PostOf(id)
         inBurst == \E t \in timers : t.id = id /\ t.field = field
         edge == field = "status" /\ value = "Approved" /\ old.status # "Approved"
     IN
     \* optimistic update
     /\ posts' = [i \in 1..Len(posts) |->
                    IF posts[i].id = id THEN SetField(posts[i], field, value)
                                        ELSE posts[i]]
     \* clearTimeout(debounceTimers.current[timerKey]); setTimeout(..., 500)
     /\ timers' = {t \in timers : t.tid # debounceTimers[key]} \cup
                  {[tid |-> tid, id |-> id, field |-> field, value |-> value,
                    isSC |-> isStatusChange(id, field, value),
                    cc |-> currentClient, left |-> DebounceMs]}
     /\ debounceTimers' = [debounceTimers EXCEPT ![key] = tid]
     /\ hist' = [hist EXCEPT
          !.edits = tid,
          !.burstN[<<id, field>>] = IF inBurst THEN @ + 1 ELSE 1,
          !.burstLast[<<id, field>>] = value,
          !.burstW[<<id, field>>] = IF inBurst THEN @ ELSE 0,
          !.burstWv[<<id, field>>] = IF inBurst THEN @ ELSE "",
          !.sedits[id] = IF field = "status" THEN @ + 1 ELSE @,
          !.edges[id] = IF edge THEN @ + 1 ELSE @,
          !.faEdge = IF field # "status" THEN @
                     ELSE IF hist.sedits[id] = 0 /\ old.status = "For Approval"
                             /\ value = "Approved"
                          THEN @ \cup {id} ELSE @ \ {id}]
  /\ UNCHANGED <<store, sessionVars, storageError, ops, fetches, notifs,
                 bulk, submitted, notesVars, publishVars, createVars>>

Edit ==
  /\ hist.edits < MaxEdits
  /\ \E id \in PostIds, f \in Fields : \E v \in FieldValues(f) : handleUpdatePost(id, f, v)

\* time passes, by at most TickMs and never beyond the next timer's delay
Advance ==
  /\ timers # {}
  /\ \A t \in timers : t.left > 0
  /\ LET lefts == {t.left : t \in timers}
         m == CHOOSE x \in lefts : \A y \in lefts : x <= y
         d == IF TickMs < m THEN TickMs ELSE m
     IN timers' = {[t EXCEPT !.left = @ - d] : t \in timers}
  /\ UNCHANGED <<store, sessionVars, posts, storageError, debounceTimers, ops,
                 fetches, notifs, bulk, submitted, notesVars, publishVars, createVars, hist>>

\* the timer callback starts: supabase.from('posts').update(updates).eq('id', id)
TimerFire(t) ==
  /\ t \in timers /\ t.left = 0
  /\ timers' = timers \ {t}
  /\ ops' = ops \cup {[tid |-> t.tid, id |-> t.id, field |-> t.field,
                       value |-> t.value, isSC |-> t.isSC, cc |-> t.cc,
                       pc |-> "update", res |-> "none"]}
  /\ hist' = [hist EXCEPT !.burstW[<<t.id, t.field>>] = @ + 1,
                          !.burstWv[<<t.id, t.field>>] = t.value]
  /\ UNCHANGED <<store, sessionVars, posts, storageError, debounceTimers,
                 fetches, notifs, bulk, submitted, notesVars, publishVars, createVars>>

\* an update that sends every column of the in-memory post
WriteWholeRow(row, o) ==
  SetField([status |-> PostOf(o.id).status, date |-> PostOf(o.id).date],
           o.field, o.value)

\* update(mapPostToDb({[field]: value})).eq('id', id): the payload holds the
\* one changed column, the others keep what the row has
WriteRow(row, o) == SetField(row, o.field, o.value)

\* the update reaches the database: mapPostToDb({[field]: value}) holds the one
\* changed column
DbUpdate(o, ok) ==
  /\ o \in ops /\ o.pc = "update"
  /\ ops' = (ops \ {o}) \cup {[o EXCEPT !.pc = "response",
                                         !.res = IF ok THEN "ok" ELSE "err"]}
  /\ LET appr == o.field = "status" /\ o.value = "Approved" IN
     IF ok
     THEN /\ store' = [store EXCEPT ![o.id] = WriteRow(@, o)]
          /\ notifs' = Notify(notifs)
          /\ hist' = [hist EXCEPT !.okApproved[o.id] = IF appr THEN @ + 1 ELSE @,
                                  !.wres[o.id] = IF o.field = "status" THEN "ok" ELSE @,
                                  !.sel = [c \in Clients |-> <<>>]]
     ELSE /\ hist' = [hist EXCEPT !.wres[o.id] = IF o.field = "status" THEN "err" ELSE @]
          /\ UNCHANGED <<store, notifs>>
  /\ UNCHANGED <<sessionVars, posts, storageError, debounceTimers, timers,
                 fetches, bulk, submitted, notesVars, publishVars, createVars>>

\* delete debounceTimers.current[timerKey], and the callback ends
Finish(o) ==
  /\ debounceTimers' = [debounceTimers EXCEPT ![timerKey(o.id, o.field)] = 0]
  /\ ops' = ops \ {o}

\* a callback that does not look at the result of the write
AutoPostInvokedAnyResult(o) == o.isSC /\ o.cc # NoClient

\* else if (isStatusChange && currentClient) of the callback
AutoPostInvoked(o) == o.res = "ok" /\ o.isSC /\ o.cc # NoClient

\* an error branch that keeps the optimistic records
ReloadSkipped(fs, c) == fs

\* the fetchPosts() of the error branch ("Revert optimism if needed")
ReloadAfterError(fs, c) == CallFetch(fs, c)

\* the response of the update arrives and the callback goes on, up to the
\* first await of handleAutoPost
OpResume(o) ==
  /\ o \in ops /\ o.pc = "response"
  /\ IF o.res = "err"
     THEN /\ FetchRoom
          /\ storageError' = TRUE
          /\ fetches' = ReloadAfterError(fetches, o.cc)
     ELSE UNCHANGED <<storageError, fetches>>
  /\ IF AutoPostInvoked(o)
     THEN /\ hist' = [hist EXCEPT !.fired[o.id] = @ + 1]
          /\ IF LateProfileIds[o.cc] = {}
             THEN Finish(o)
             ELSE /\ ops' = (ops \ {o}) \cup {[o EXCEPT !.pc = "profiles"]}
                  /\ UNCHANGED debounceTimers
     ELSE Finish(o) /\ UNCHANGED hist
  /\ UNCHANGED <<store, sessionVars, posts, timers, notifs, bulk, submitted, notesVars, publishVars, createVars>>

\* post.imageUrl && post.imageUrl.trim() !== '' && post.imageUrl.startsWith('http')
hasValidMedia(id) == ImageUrl[id] = "http"

\* allProfiles.filter(p => clientProfileIds.includes(p.id))
clientProfiles(c) == {p \in LateProfiles : p.id \in LateProfileIds[c]}

\* a callback that schedules without looking at the media
SkipForMediaNever(o) == FALSE

\* if (hasInstagram && !hasValidMedia) return
SkipForMedia(o) ==
  (\E p \in clientProfiles(o.cc) : p.platform = "instagram") /\ ~hasValidMedia(o.id)

\* the calls of schedulePost made so far for one record
SentOf(id) == {c \in sent : c.id = id}

\* one call of schedulePost: who made it, the n-th for the record, the ids of
\* the profiles in platforms and the url in mediaUrls ("" for none)
SentCall(id, by, profiles, media) ==
  [id |-> id, by |-> by, n |-> Cardinality(SentOf(id)) + 1,
   platforms |-> {q.id : q \in profiles}, media |-> media]

\* mediaUrls: hasValidMedia ? [post.imageUrl!] : []
AutoMedia(id) == IF hasValidMedia(id) THEN ImageUrl[id] ELSE ""

\* getProfiles() answers; schedulePost is called unless Instagram lacks media
OpProfiles(o, ok) ==
  /\ o \in ops /\ o.pc = "profiles"
  /\ IF ok /\ ~SkipForMedia(o)
     THEN /\ ops' = (ops \ {o}) \cup {[o EXCEPT !.pc = "schedule"]}
          /\ hist' = [hist EXCEPT !.calls[o.id] = @ + 1]
          /\ sent' = sent \cup {SentCall(o.id, "auto", clientProfiles(o.cc),
                                         AutoMedia(o.id))}
          /\ UNCHANGED debounceTimers
     ELSE Finish(o) /\ UNCHANGED <<hist, sent>>
  /\ UNCHANGED <<store, sessionVars, posts, storageError, timers, fetches,
                 notifs, bulk, submitted, notesVars, composed, modal, sched, createVars>>

\* getProfiles() throws, or answers with the profiles the Late account has
\* now, which need not hold the ones assigned to the client
OpProfilesAnswer(o, ok, allProfiles) ==
  LET assigned == {q \in allProfiles : q.id \in LateProfileIds[o.cc]}
      hasInstagram == \E q \in assigned : q.platform = "instagram"
  IN
  /\ o \in ops /\ o.pc = "profiles"
  /\ IF ok /\ ~(hasInstagram /\ ~hasValidMedia(o.id))
     THEN /\ ops' = (ops \ {o}) \cup {[o EXCEPT !.pc = "schedule"]}
          /\ hist' = [hist EXCEPT !.calls[o.id] = @ + 1]
          /\ sent' = sent \cup {SentCall(o.id, "auto", assigned, AutoMedia(o.id))}
          /\ UNCHANGED debounceTimers
     ELSE Finish(o) /\ UNCHANGED <<hist, sent>>
  /\ UNCHANGED <<store, sessionVars, posts, storageError, timers, fetches,
                 notifs, bulk, submitted, notesVars, composed, modal, sched, createVars>>

\* setPosts(prev => prev.map(p => p.id === postId ? {...p, status: 'Posted'} : p))
MarkPosted(id) ==
  [i \in 1..Len(posts) |->
     IF posts[i].id = id THEN [posts[i] EXCEPT !.status = "Posted"] ELSE posts[i]]

\* a handler that marks the post Posted whatever schedulePost answered
PostsAfterScheduleAnyResult(o, ok) == MarkPosted(o.id)

\* the in-memory posts after schedulePost answered: the setPosts after the
\* call is skipped when the call throws
PostsAfterSchedule(o, ok) == IF ok THEN MarkPosted(o.id) ELSE posts

\* schedulePost answers; on success the status becomes Posted in memory and
\* the update of the row is sent; on failure the catch block logs
OpSchedule(o, ok) ==
  /\ o \in ops /\ o.pc = "schedule"
  /\ posts' = PostsAfterSchedule(o, ok)
  /\ IF ok
     THEN /\ ops' = (ops \ {o}) \cup {[o EXCEPT !.pc = "posted"]}
          /\ UNCHANGED debounceTimers
     ELSE Finish(o)
  /\ UNCHANGED <<store, sessionVars, storageError, timers, fetches, notifs,
                 bulk, submitted, notesVars, publishVars, createVars, hist>>

\* update({ status: 'Posted' }) answers; its result is not looked at
OpPosted(o, ok) ==
  /\ o \in ops /\ o.pc = "posted"
  /\ IF ok
     THEN /\ store' = [store EXCEPT ![o.id].status = "Posted"]
          /\ notifs' = Notify(notifs)
          /\ hist' = [hist EXCEPT !.sel = [c \in Clients |-> <<>>]]
     ELSE UNCHANGED <<store, notifs, hist>>
  /\ Finish(o)
  /\ UNCHANGED <<sessionVars, posts, storageError, timers, fetches, bulk,
                 submitted, notesVars, publishVars, createVars>>

Timer == \E t \in timers : TimerFire(t)

DbUpdateStep == \E o \in ops, ok \in BOOLEAN : DbUpdate(o, ok)

OpResumeStep == \E o \in ops : OpResume(o)

OpProfilesStep == \E o \in ops, ok \in BOOLEAN : OpProfiles(o, ok)

OpScheduleStep == \E o \in ops, ok \in BOOLEAN : OpSchedule(o, ok)

OpPostedStep == \E o \in ops, ok \in BOOLEAN : OpPosted(o, ok)

\* -------------------------------------------------------------- Approve All
filteredIds == {posts[i].id : i \in {j \in 1..Len(posts) : MonthOf[posts[j].date] = selectedMonth}}

\* the button's onClick up to Promise.all: one update({status: 'Approved'})
\* per row of filteredPosts
ApproveAllClick ==
  /\ isAuthenticated /\ ~showClientSelector /\ currentClient # NoClient
  /\ \A t \in timers : t.left > 0
  /\ ~bulk.active /\ hist.bulks < MaxBulk
  /\ bulk' = [active |-> TRUE, pending |-> filteredIds, cc |-> currentClient]
  /\ hist' = [hist EXCEPT !.bulks = @ + 1,
                          !.otherStatus = @ \cup filteredIds,
                          !.bulkFrom = {p \in filteredIds : PostOf(p).status # "Approved"}]
  /\ UNCHANGED <<store, sessionVars, posts, storageError, debounceTimers,
                 timers, ops, fetches, notifs, submitted, notesVars, publishVars, createVars>>

\* one of the updates reaches the database
BulkDb(p, ok) ==
  /\ bulk.active /\ p \in bulk.pending
  /\ bulk' = [bulk EXCEPT !.pending = @ \ {p}]
  /\ IF ok
     THEN /\ store' = [store EXCEPT ![p].status = "Approved"]
          /\ notifs' = Notify(notifs)
          /\ hist' = [hist EXCEPT !.sel = [c \in Clients |-> <<>>]]
     ELSE UNCHANGED <<store, notifs, hist>>
  /\ UNCHANGED <<sessionVars, posts, storageError, debounceTimers, timers,
                 ops, fetches, submitted, notesVars, publishVars, createVars>>

\* Promise.all resolves: fetchPosts()
BulkDone ==
  /\ bulk.active /\ bulk.pending = {}
  /\ FetchRoom
  /\ fetches' = CallFetch(fetches, bulk.cc)
  /\ bulk' = [active |-> FALSE, pending |-> {}, cc |-> NoClient]
  /\ UNCHANGED <<store, sessionVars, posts, storageError, debounceTimers,
                 timers, ops, notifs, submitted, notesVars, publishVars, createVars, hist>>

BulkDbStep == \E p \in PostIds, ok \in BOOLEAN : BulkDb(p, ok)

\* edits of the status select alone, for the coalescing of one key
EditBurst ==
  /\ hist.edits < MaxBurstEdits
  /\ \E id \in PostIds : \E v \in FieldValues("status") : handleUpdatePost(id, "status", v)

\* edits of the date input alone, next to reloads and other sessions' writes
EditDate ==
  /\ hist.edits < MaxSyncEdits
  /\ \E id \in PostIds : \E v \in FieldValues("date") : handleUpdatePost(id, "date", v)

\* ------------------------------------------------------- creation of posts
\* new Date().toISOString().split('T')[0]
Today == "2025-01-10"

\* the k-th identifier drawn from crypto.randomUUID() or uuidv4(): 122 random
\* bits, taken to differ from every identifier drawn before
Uuid(k) == "u" \o ToString(k)

UuidsDrawn == Cardinality({i \in 1..Len(created) : created[i].path # "new"})

\* a row handed to insert: own tells the rows of this session from those of
\* other sessions, batch is the position of the first row of its insert
NewRow(id, c, st, d, path, own, batch) ==
  [id |-> id, client_id |-> c, status |-> st, date |-> d, path |-> path,
   own |-> own, batch |-> batch, res |-> "sent"]

\* Date.now() moves on
Tick ==
  /\ now < MaxNow
  /\ now' = now + 1
  /\ UNCHANGED <<store, sessionVars, posts, storageError, debounceTimers,
                 timers, ops, fetches, notifs, bulk, alerts, editorId, created,
                 submitted, notesVars, publishVars, hist>>

\* the New Post button: setIsEditorOpen(true); PostEditor mounts and keeps the
\* post prop of that render, id: Date.now().toString(), in useState.  Two
\* clicks of one user are more than a millisecond apart.
OpenEditor ==
  /\ isAuthenticated /\ ~showClientSelector /\ currentClient # NoClient
  /\ editorId = ""
  /\ \A i \in 1..Len(created) :
       (created[i].own /\ created[i].path = "new") => created[i].id # ToString(now)
  /\ editorId' = ToString(now)
  /\ UNCHANGED <<store, sessionVars, posts, storageError, debounceTimers,
                 timers, ops, fetches, notifs, bulk, alerts, now, created,
                 submitted, notesVars, publishVars, hist>>

\* onClose of the editor
CloseEditor ==
  /\ editorId # ""
  /\ editorId' = ""
  /\ UNCHANGED <<store, sessionVars, posts, storageError, debounceTimers,
                 timers, ops, fetches, notifs, bulk, alerts, now, created,
                 submitted, notesVars, publishVars, hist>>

\* the editor's save button: onUpdate(editedPost), up to the await of insert
handleNewPost ==
  /\ editorId # "" /\ currentClient # NoClient
  /\ Len(created) < MaxCreate
  /\ editorId' = ""
  \* optimistic add
  /\ posts' = Append(posts, [id |-> editorId, client_id |-> currentClient,
                              status |-> "Draft", date |-> Today])
  /\ created' = Append(created, NewRow(editorId, currentClient, "Draft", Today,
                                        "new", TRUE, Len(created) + 1))
  /\ UNCHANGED <<store, sessionVars, storageError, debounceTimers, timers, ops,
                 fetches, notifs, bulk, alerts, now, submitted, notesVars, publishVars, hist>>

\* the same handler in the session of another user, whose editor was mounted
\* when that browser's clock showed t, while this session is open
OtherNewPost ==
  /\ isAuthenticated /\ currentClient # NoClient
  /\ Len(created) < MaxCreate
  /\ Cardinality({i \in 1..Len(created) : ~created[i].own}) < MaxOtherCreate
  /\ \E c \in Clients, t \in 0..now :
       created' = Append(created, NewRow(ToString(t), c, "Draft", Today,
                                         "new", FALSE, Len(created) + 1))
  /\ UNCHANGED <<store, sessionVars, posts, storageError, debounceTimers,
                 timers, ops, fetches, notifs, bulk, alerts, now, editorId,
                 submitted, notesVars, publishVars, hist>>

\* the Duplicate Post button of a post card, up to the await of insert
handleDuplicatePost ==
  /\ isAuthenticated /\ ~showClientSelector /\ currentClient # NoClient
  /\ Len(created) < MaxCreate
  /\ \E i \in 1..Len(posts) :
       /\ MonthOf[posts[i].date] = selectedMonth
       /\ created' = Append(created, NewRow(Uuid(UuidsDrawn + 1), currentClient,
                                             "Draft", posts[i].date, "dup", TRUE,
                                             Len(created) + 1))
  /\ UNCHANGED <<store, sessionVars, posts, storageError, debounceTimers,
                 timers, ops, fetches, notifs, bulk, alerts, now, editorId,
                 submitted, notesVars, publishVars, hist>>

\* handleGenerate of GeneratePostsModal (agency only) for n content ideas, up
\* to the await of the one insert of all rows
GeneratePosts(n) ==
  /\ isAuthenticated /\ isMasterAccount /\ ~showClientSelector
  /\ currentClient # NoClient
  /\ Len(created) + n <= MaxCreate
  /\ created' = created \o
       [k \in 1..n |-> NewRow(Uuid(UuidsDrawn + k), currentClient, "Generated",
                               Today, "gen", TRUE, Len(created) + 1)]
  /\ UNCHANGED <<store, sessionVars, posts, storageError, debounceTimers,
                 timers, ops, fetches, notifs, bulk, alerts, now, editorId,
                 submitted, notesVars, publishVars, hist>>

Generate == \E n \in 1..2 : GeneratePosts(n)

\* the insert that starts at row b of created answers.  posts.id is the
\* primary key: the insert is refused when one of its ids is already in the
\* table.  handleNewPost alerts and reloads on an error, handleDuplicatePost
\* alerts, the modal shows the error in its own panel and reloads after a
\* success (the reload is the one fetch the session has pending, or a new one).
InsertAnswer(b, ok) ==
  LET rows == {i \in 1..Len(created) : created[i].batch = b /\ created[i].res = "sent"}
      ids == {created[i].id : i \in rows}
      taken == {created[i].id : i \in {j \in 1..Len(created) : created[j].res = "ok"}}
      good == ok /\ ids \cap taken = {} /\ Cardinality(ids) = Cardinality(rows)
  IN
  /\ rows # {}
  /\ created' = [i \in 1..Len(created) |->
                   IF i \in rows
                   THEN [created[i] EXCEPT !.res = IF good THEN "ok" ELSE "err"]
                   ELSE created[i]]
  /\ notifs' = IF good THEN Notify(notifs) ELSE notifs
  /\ hist' = IF good THEN [hist EXCEPT !.sel = [c \in Clients |-> <<>>]] ELSE hist
  /\ alerts' = IF created[b].own /\ ~good /\ created[b].path \in {"new", "dup"}
               THEN alerts + 1 ELSE alerts
  /\ fetches' = IF created[b].own /\ ((~good /\ created[b].path = "new")
                                      \/ (good /\ created[b].path = "gen"))
                THEN CallFetch(fetches, created[b].client_id) ELSE fetches
  /\ UNCHANGED <<store, sessionVars, posts, storageError, debounceTimers,
                 timers, ops, bulk, now, editorId, submitted, notesVars, publishVars>>

InsertAnswerStep == \E b \in 1..Len(created), ok \in BOOLEAN : InsertAnswer(b, ok)

\* edits of the status select alone, for the auto-publish trigger
EditStatus ==
  /\ hist.edits < MaxStatusEdits
  /\ \E id \in PostIds : \E v \in FieldValues("status") : handleUpdatePost(id, "status", v)

\* ----------------------------------------------------------- specifications
\* the session's tenant scope: login, client selection, reloads (the only
\* specification that follows failing reloads) and other sessions' writes
Next ==
  \/ Login
  \/ SelectClient
  \/ OpenClientSelector
  \/ FetchQueryStep
  \/ FetchFailStep
  \/ FetchDoneStep
  \/ NotifDeliver
  \/ Refresh
  \/ Foreign

Spec == Init /\ [][Next]_vars

\* a session that edits dates while other sessions write and reloads arrive
NextTenant ==
  \/ Login
  \/ FetchQueryStep
  \/ FetchDoneStep
  \/ NotifDeliver
  \/ Refresh
  \/ OtherTenantWrite
  \/ EditDate
  \/ Advance
  \/ Timer
  \/ DbUpdateStep
  \/ OpResumeStep

SpecTenant == Init /\ [][NextTenant]_vars

\* the write queue and the status trigger of one session
NextEdit ==
  \/ Login
  \/ FetchQueryStep
  \/ FetchDoneStep
  \/ NotifDeliver
  \/ Edit
  \/ Advance
  \/ Timer
  \/ DbUpdateStep
  \/ OpResumeStep
  \/ OpProfilesStep
  \/ OpScheduleStep
  \/ OpPostedStep

SpecEdit == Init /\ [][NextEdit]_vars

\* bursts of edits of one key; the realtime channel delivers nothing (realtime
\* is off for the table unless it was enabled in the dashboard)
NextBurst ==
  \/ Login
  \/ FetchQueryStep
  \/ FetchDoneStep
  \/ EditBurst
  \/ Advance
  \/ Timer
  \/ DbUpdateStep
  \/ OpResumeStep
  \/ OpProfilesStep
  \/ OpScheduleStep
  \/ OpPostedStep

SpecBurst == Init /\ [][NextBurst]_vars

\* Approve All next to single edits
NextBulk ==
  \/ Login
  \/ FetchQueryStep
  \/ FetchDoneStep
  \/ NotifDeliver
  \/ ApproveAllClick
  \/ BulkDbStep
  \/ BulkDone
  \/ Edit
  \/ Advance
  \/ Timer
  \/ DbUpdateStep
  \/ OpResumeStep
  \/ OpProfilesStep
  \/ OpScheduleStep
  \/ OpPostedStep

SpecBulk == Init /\ [][NextBulk]_vars

\* the auto-publish trigger in a month that shows both posts of ld, the one
\* with a public image and the one without media, waiting for approval; the
\* realtime channel delivers nothing
InitPublish ==
  InitWith([p \in PostIds |->
              [status |-> IF p = "p3" THEN "Draft" ELSE "For Approval",
               date |-> "2025-01-10"]])

NextPublish ==
  \/ Login
  \/ FetchQueryStep
  \/ FetchFailStep
  \/ FetchDoneStep
  \/ EditStatus
  \/ Advance
  \/ Timer
  \/ DbUpdateStep
  \/ OpResumeStep
  \/ OpProfilesStep
  \/ OpScheduleStep
  \/ OpPostedStep

SpecPublish == InitPublish /\ [][NextPublish]_vars

\* a session that edits dates while another session of the same tenant sets
\* statuses
NextShared ==
  \/ Login
  \/ FetchQueryStep
  \/ FetchDoneStep
  \/ NotifDeliver
  \/ SameTenantWrite
  \/ EditDate
  \/ Advance
  \/ Timer
  \/ DbUpdateStep
  \/ OpResumeStep

SpecShared == Init /\ [][NextShared]_vars

\* the three creation paths of one session next to the new posts of other
\* sessions; reloads are not followed
NextCreate ==
  \/ Login
  \/ SelectClient
  \/ Tick
  \/ OpenEditor
  \/ CloseEditor
  \/ handleNewPost
  \/ OtherNewPost
  \/ handleDuplicatePost
  \/ Generate
  \/ InsertAnswerStep

SpecCreate == Init /\ [][NextCreate]_vars
\* --------------------------------------------------------------- properties
TimerIds(S) == {t.tid : t \in S}

\* no timer is scheduled and no timer callback is still running
Quiescent == timers = {} /\ ops = {}

\* C1: for every burst of edits of one (record, field), each made less than
\* 500 ms after the previous one, exactly one write is issued for the key and
\* it carries the value of the last edit: never more than one, and once no
\* timer of the key is left, exactly one with the last value.
C1_OneWritePerBurst ==
  \A k \in Keys :
    hist.burstN[k] >= 1 =>
      /\ hist.burstW[k] <= 1
      /\ (~\E t \in timers : <<t.id, t.field>> = k) =>
           hist.burstW[k] = 1 /\ hist.burstWv[k] = hist.burstLast[k]

\* C2: a scheduled write of one (record, field) disappears only by being
\* issued as its own write, or by a new edit of the same (record, field); an
\* edit of another field or record never cancels or replaces it.
C2_IndependentKeys ==
  [][\A t \in timers :
       t.tid \notin TimerIds(timers') =>
         \/ \E o \in ops' : /\ o.tid = t.tid /\ o.pc = "update"
                            /\ o.id = t.id /\ o.field = t.field /\ o.value = t.value
         \/ /\ hist'.edits = hist.edits + 1
            /\ \E n \in timers' : n.tid = hist'.edits /\ n.id = t.id /\ n.field = t.field]_vars

\* two fields of one record were edited within the quiet period of each other
\* and both writes are under way
C2_Witness ==
  \E o1, o2 \in ops : o1.id = o2.id /\ o1.field # o2.field
                      /\ o1.pc = "update" /\ o2.pc = "update"

\* the posts whose status the session changed exactly once, from For Approval
\* to Approved, and nothing else wrote
SingleApproval == {p \in hist.faEdge : p \notin hist.otherStatus}

C4_AtMostOncePerEdge ==
  \A p \in PostIds :
    hist.fired[p]
      + Cardinality({t \in timers : t.id = p /\ t.isSC})
      + Cardinality({o \in ops : o.id = p /\ o.isSC /\ o.pc \in {"update", "response"}})
    <= hist.edges[p]

\* two status edits of p1, one of them a change of the in-memory status to
\* Approved, have been written and auto-publish ran once
C4_Witness ==
  /\ hist.sedits["p1"] = 2 /\ hist.edges["p1"] = 1 /\ hist.fired["p1"] = 1
  /\ Quiescent

\* C5: in a session of a non-super tenant, the in-memory records and every
\* fetch result about to be placed there belong to the session's tenant.
C5_TenantIsolation ==
  (isAuthenticated /\ ~isMasterAccount) =>
    /\ \A i \in 1..Len(posts) : posts[i].client_id = currentClient
    /\ \A f \in fetches : \A i \in 1..Len(f.data) : f.data[i].client_id = currentClient

\* another tenant's write has notified a loaded session of tenant ld
C5_Witness ==
  /\ isAuthenticated /\ ~isMasterAccount /\ currentClient = "ld"
  /\ Len(posts) = 2
  /\ hist.foreign = 1 /\ store["p3"] # [status |-> "Draft", date |-> "2025-01-10"]
  /\ hist.edits = 0 /\ notifs = 1

\* C6: two fetch queries of one tenant scope with no write to the table in
\* between return the same rows in the same order.
C6_IdempotentReload == ~hist.selDiff

\* C7: after a login attempt whose secret equals no tenant's secret the
\* session is unauthenticated, shows the login error, has no tenant in scope
\* and no super privilege.
C7_NoMatchFails ==
  (submitted # <<"-">> /\ \A c \in Clients : Pin[c] # submitted) =>
    /\ ~isAuthenticated
    /\ loginError
    /\ currentClient = NoClient
    /\ ~isMasterAccount

\* a proper prefix of a tenant's secret was submitted and refused
C7_Witness ==
  submitted = <<"5", "6">> /\ loginError /\ ~isAuthenticated

\* C8: an authenticated session opened with a tenant's secret is regular and
\* scoped to that tenant; one opened with the super secret is super and, until
\* a tenant is chosen, has no tenant in scope and shows the client selector.
C8_SessionPrivileges ==
  isAuthenticated =>
    IF submitted = MasterPin
    THEN /\ isMasterAccount
         /\ hist.selects = 0 => currentClient = NoClient /\ showClientSelector
    ELSE /\ ~isMasterAccount
         /\ currentClient \in Clients
         /\ Pin[currentClient] = submitted

\* C9: a timer callback is inside handleAutoPost only after its own write of
\* status Approved succeeded, and per record there are never more schedulePost
\* calls or handleAutoPost runs than successful writes of Approved.
C9_PublishAfterWrite ==
  /\ \A o \in ops :
       o.pc \in {"profiles", "schedule", "posted"} =>
         o.res = "ok" /\ o.field = "status" /\ o.value = "Approved"
  /\ \A p \in PostIds : hist.calls[p] <= hist.okApproved[p]
  /\ \A p \in PostIds : hist.fired[p] <= hist.okApproved[p]

\* schedulePost has been called for p1 and is awaited
C9_Witness ==
  \E o \in ops : o.id = "p1" /\ o.pc = "schedule" /\ hist.calls["p1"] = 1

\* C10: once Approve All and everything it started have finished, every record
\* it found not yet Approved whose client has an assigned profile and whose
\* media is valid has had its one schedulePost call, as a single status edit
\* of that record would have caused.
C10_BulkApproveTriggers ==
  (hist.bulks >= 1 /\ ~bulk.active /\ Quiescent) =>
    \A p \in hist.bulkFrom :
      (LateProfileIds[ClientOf[p]] # {} /\ hasValidMedia(p)) => hist.calls[p] = 1

\* the tenant of the post has no assigned profile
NoPlatform(p) == clientProfiles(ClientOf[p]) = {}

\* an assigned profile is on Instagram and the post has no public media URL
MediaMissing(p) ==
  (\E q \in clientProfiles(ClientOf[p]) : q.platform = "instagram") /\ ~hasValidMedia(p)

\* the session changed the status of p to Approved with its only status edit
\* of p, the write succeeded and nothing else wrote the status
ApprovedOnce(p) ==
  /\ hist.sedits[p] = 1 /\ hist.edges[p] = 1 /\ hist.wres[p] = "ok"
  /\ p \notin hist.otherStatus

C11_WitnessNoPlatform ==
  /\ NoPlatform("p3") /\ ApprovedOnce("p3") /\ Quiescent
  /\ hist.fired["p3"] = 1 /\ store["p3"].status = "Approved"

\* the callbacks whose external call (getProfiles, schedulePost) is awaited
\* in this state and which have ended in the next: the call failed, or the
\* media check stopped a callback that was waiting for getProfiles
EndedAtCall == {o \in ops : o.pc \in {"profiles", "schedule"}
                            /\ \A n \in ops' : n.tid # o.tid}

\* C12: while a callback waits for an external call of auto-publish after the
\* session's single approval of the record, the stored status is Approved;
\* the step in which the call fails changes neither the table nor the
\* in-memory records, starts no timer, no callback, no reload and no further
\* call; and schedulePost is never called more often for a record than the
\* user changed its status to Approved.
C12_FailureLeavesApproved ==
  /\ [](\A o \in ops :
          (o.pc \in {"profiles", "schedule"} /\ ApprovedOnce(o.id)) =>
            store[o.id].status = "Approved")
  /\ [](\A p \in PostIds : hist.calls[p] <= hist.edges[p])
  /\ [][\A o \in EndedAtCall :
          /\ store' = store /\ posts' = posts
          /\ timers' = timers /\ ops' = ops \ {o} /\ fetches' = fetches
          /\ hist'.calls = hist.calls /\ hist'.fired = hist.fired]_vars

\* schedulePost failed for p1, the only record the session edited: the call
\* was made, the callback has ended and the status is Approved in the table
\* and in memory
C12_Witness ==
  /\ ApprovedOnce("p1") /\ hist.edits = 1 /\ Quiescent
  /\ hist.calls["p1"] = 1
  /\ store["p1"].status = "Approved"
  /\ PostOf("p1").status = "Approved"

\* C13: the step in which getProfiles or schedulePost fails for a callback
\* of auto-publish opens a dialog in the session.
C13_FailureNotifies ==
  [][\A o \in EndedAtCall :
       (o.pc = "schedule" \/ ~SkipForMedia(o)) => alerts' = alerts + 1]_vars

\* the status edits of the session whose write failed: the only status edit
\* of the record, and nothing else wrote its status
FailedOnce(p) ==
  hist.sedits[p] = 1 /\ hist.wres[p] = "err" /\ p \notin hist.otherStatus

\* C14: the callback whose write failed sets the error banner and calls
\* fetchPosts for its client; and once everything the session started has
\* finished and a reload has succeeded (the banner is cleared), the in-memory
\* status of a record whose only status write failed is the stored one.
C14_FailedWriteReloads ==
  /\ [][\A o \in ops :
          (o.pc = "response" /\ o.res = "err" /\ \A n \in ops' : n.tid # o.tid) =>
            /\ storageError'
            /\ \E f \in fetches' : f.client = o.cc /\ f.state = "sent"]_vars
  /\ [](\A p \in PostIds :
          (FailedOnce(p) /\ Quiescent /\ fetches = {} /\ ~storageError) =>
            \A i \in 1..Len(posts) :
              posts[i].id = p => posts[i].status = store[p].status)

\* the write of Approved for p1 failed and the reload has put the stored
\* status For Approval back in place of the optimistic Approved
C14_Witness ==
  /\ FailedOnce("p1") /\ hist.edges["p1"] = 1
  /\ Quiescent /\ fetches = {} /\ ~storageError
  /\ Len(posts) > 0 /\ PostOf("p1").status = "For Approval"
  /\ store["p1"].status = "For Approval"

\* post[field]
FieldOf(rec, f) == IF f = "status" THEN rec.status ELSE rec.date

\* the timers whose callback starts in this step and issues its write
Firing == {t \in timers : t.tid \notin TimerIds(timers') /\ \E o \in ops' : o.tid = t.tid}

\* C15: an edit that a reload has removed from the in-memory records is not
\* written afterwards: when the timer of the session's last edit of a key
\* fires (for a record auto-publish has not touched), the in-memory records
\* still hold the value it writes.
C15_DiscardedEditsNotWritten ==
  [][\A t \in Firing :
       (hist.burstLast[<<t.id, t.field>>] = t.value /\ hist.fired[t.id] = 0) =>
         FieldOf(PostOf(t.id), t.field) = t.value]_vars

\* C16: while the timer of the session's latest edit of a key is pending, or
\* its write is in flight, the in-memory records hold the edited value (no
\* other session writes the rows of this tenant, so any other value is an
\* older one).
C16_ViewAsFreshAsLastEdit ==
  \A t \in timers \cup {o \in ops : o.pc = "update"} :
    debounceTimers[timerKey(t.id, t.field)] = t.tid =>
      \E i \in 1..Len(posts) :
        posts[i].id = t.id /\ FieldOf(posts[i], t.field) = t.value

\* the callbacks whose write is applied to the table in this step
Written == {o \in ops : o.pc = "update"
                        /\ \E n \in ops' : n.tid = o.tid /\ n.res = "ok"}

\* C17: a debounced write changes the edited column of its row to the edited
\* value and nothing else in the table; so when the session wrote the date of
\* a record with its only edit and another session wrote the status of the
\* same record, before, between or after, the row holds both new values.
C17_SingleColumnWrites ==
  /\ [][\A o \in Written :
          /\ FieldOf(store'[o.id], o.field) = o.value
          /\ \A f \in Fields \ {o.field} :
               FieldOf(store'[o.id], f) = FieldOf(store[o.id], f)
          /\ \A p \in PostIds \ {o.id} : store'[p] = store[p]]_vars
  /\ [](\A o \in ops :
          (/\ o.pc = "response" /\ o.res = "ok" /\ o.field = "date"
           /\ hist.edits = 1 /\ hist.foreign = 1 /\ o.id \in hist.otherStatus) =>
            store[o.id] = [status |-> "Posted", date |-> o.value])

\* the session changed the date of p1 and another session set its status to
\* Posted while the edit was waiting for its timer; both writes succeeded
C17_Witness ==
  /\ \E o \in ops : /\ o.id = "p1" /\ o.pc = "response" /\ o.res = "ok"
                     /\ o.field = "date" /\ o.value = "2025-02-05"
  /\ hist.edits = 1 /\ hist.foreign = 1 /\ "p1" \in hist.otherStatus
  /\ PostOf("p1").status = "For Approval"
  /\ store["p1"] = [status |-> "Posted", date |-> "2025-02-05"]

C19_PostedIsPersisted ==
  [][\A o \in ops :
       (o.pc = "posted" /\ \A n \in ops' : n.tid # o.tid) =>
         store'[o.id].status = "Posted"]_vars

\* C20: no two rows handed to insert by the creation paths, of this session
\* or of others, carry the same id.
C20_CreatedIdsDiffer ==
  \A i, j \in 1..Len(created) : i # j => created[i].id # created[j].id

\* ---------------------------------------------------------------------------
\* The content handleAutoPost composes.  A text is the sequence of its pieces:
\* a word of the record, the line break "\n", the marker "#" or the blank " ".

MaxTags == 2

Words == {<<>>, <<"Hi">>, <<"Hi", "all">>}

Tags == {"sun", "sea", "sky"}

RECURSIVE TagLists(_)
TagLists(n) ==
  IF n = 0 THEN {<<>>}
  ELSE TagLists(n - 1) \cup
       {Append(l, t) : l \in {x \in TagLists(n - 1) : Len(x) = n - 1}, t \in Tags}

\* hashtags.map(tag => `#${tag}`).join(' ')
RECURSIVE JoinTags(_)
JoinTags(hashtags) ==
  IF Len(hashtags) = 0 THEN <<>>
  ELSE IF Len(hashtags) = 1 THEN <<"#", hashtags[1]>>
  ELSE <<"#", hashtags[1], " ">> \o JoinTags(Tail(hashtags))

\* the content of handleAutoPost: the caption or '', the hashtags appended
\* after two line breaks when there are any, and the description only when
\* the content is still empty
AutoPostContent(caption, hashtags, description) ==
  LET c0 == caption
      c1 == IF Len(hashtags) > 0
            THEN c0 \o <<"\n", "\n">> \o JoinTags(hashtags)
            ELSE c0
  IN IF c1 = <<>> THEN description ELSE c1

\* handleAutoPost composes the content of some record
ComposeContent ==
  /\ \E caption \in Words, hashtags \in TagLists(MaxTags), description \in Words :
       composed' = [caption |-> caption, hashtags |-> hashtags,
                    description |-> description,
                    content |-> AutoPostContent(caption, hashtags, description),
                    done |-> TRUE]
  /\ UNCHANGED <<store, sessionVars, posts, storageError, debounceTimers, timers,
                 ops, fetches, notifs, bulk, createVars, sent, modal, sched,
                 submitted, notesVars, hist>>

SpecContent == Init /\ [][ComposeContent]_vars

\* C21: the content sent by auto-publish is the caption followed by the
\* hashtags, each with a leading '#' and separated by whitespace; for a record
\* without a caption the content is the raw description.
C21_ContentIsCaptionOrDescription ==
  composed.done =>
    composed.content =
      IF composed.caption = <<>> THEN composed.description
      ELSE IF composed.hashtags = <<>> THEN composed.caption
      ELSE composed.caption \o <<"\n", "\n">> \o JoinTags(composed.hashtags)

\* the scheduled timers of one (record, field)
TimersOfKey(k) == {t \in timers : <<t.id, t.field>> = k}

\* C26: each (record, field) has at most one scheduled timer at any moment,
\* and that timer is the one the timer map holds for the key, so the next
\* edit of the key cancels it; also when an edit arrives while an earlier
\* write of the key is in flight and its completion deletes the map entry.
C26_OnePendingTimerPerKey ==
  \A k \in Keys :
    /\ Cardinality(TimersOfKey(k)) <= 1
    /\ \A t \in TimersOfKey(k) : debounceTimers[timerKey(k[1], k[2])] = t.tid

\* ---------------------------------------------------------------------------
\* auto-publish when the Late account may have lost profiles since they were
\* assigned to the client
NextProfiles ==
  \/ Login
  \/ FetchQueryStep
  \/ FetchDoneStep
  \/ EditStatus
  \/ Advance
  \/ Timer
  \/ DbUpdateStep
  \/ OpResumeStep
  \/ \E o \in ops, ok \in BOOLEAN, allProfiles \in SUBSET LateProfiles :
       OpProfilesAnswer(o, ok, allProfiles)
  \/ OpScheduleStep
  \/ OpPostedStep

SpecProfiles == InitPublish /\ [][NextProfiles]_vars

\* C29: auto-publish calls the scheduling service only with a platform list
\* that is not empty; when no assigned profile is among the profiles the
\* lookup returned, no call is made and the status does not become Posted.
C29_AutoCallHasPlatforms ==
  \A c \in sent : c.by = "auto" => c.platforms # {}

\* ------------------------------------------------------ the Schedule modal
MaxOpen == 1

MaxToggle == 1

MaxSchedule == 1

\* handleOpenScheduleModal up to getProfiles(): the button is rendered for the
\* master account with a client selected
handleOpenScheduleModal ==
  /\ isAuthenticated /\ isMasterAccount /\ ~showClientSelector
  /\ currentClient # NoClient
  /\ \A t \in timers : t.left > 0
  /\ ~modal.open /\ ~modal.loading /\ ~sched.active
  /\ hist.opens < MaxOpen
  /\ modal' = [modal EXCEPT !.open = TRUE, !.loading = TRUE, !.cc = currentClient]
  /\ hist' = [hist EXCEPT !.opens = @ + 1]
  /\ UNCHANGED <<store, sessionVars, posts, storageError, debounceTimers, timers,
                 ops, fetches, notifs, bulk, createVars, composed, sent, sched,
                 submitted, notesVars>>

\* getProfiles() answers: the profiles assigned to the client, or all of them
\* when none is assigned, are listed and selected; an error is alerted
ProfilesLoaded(ok) ==
  /\ modal.loading
  /\ IF ok
     THEN LET profiles == IF LateProfileIds[modal.cc] # {}
                          THEN {q \in LateProfiles : q.id \in LateProfileIds[modal.cc]}
                          ELSE LateProfiles
          IN /\ modal' = [modal EXCEPT !.loading = FALSE,
                                       !.lateProfiles = profiles,
                                       !.selectedProfiles = {q.id : q \in profiles}]
             /\ UNCHANGED alerts
     ELSE /\ modal' = [modal EXCEPT !.loading = FALSE]
          /\ alerts' = alerts + 1
  /\ UNCHANGED <<store, sessionVars, posts, storageError, debounceTimers, timers,
                 ops, fetches, notifs, bulk, now, editorId, created, composed,
                 sent, sched, submitted, notesVars, hist>>

ProfilesLoadedStep == \E ok \in BOOLEAN : ProfilesLoaded(ok)

\* a checkbox of the modal
toggleProfileSelection(profileId) ==
  /\ modal.open /\ ~sched.active
  /\ \A t \in timers : t.left > 0
  /\ \E q \in modal.lateProfiles : q.id = profileId
  /\ hist.toggles < MaxToggle
  /\ modal' = [modal EXCEPT !.selectedProfiles =
                 IF profileId \in @ THEN @ \ {profileId} ELSE @ \cup {profileId}]
  /\ hist' = [hist EXCEPT !.toggles = @ + 1]
  /\ UNCHANGED <<store, sessionVars, posts, storageError, debounceTimers, timers,
                 ops, fetches, notifs, bulk, createVars, composed, sent, sched,
                 submitted, notesVars>>

ToggleProfile == \E q \in LateProfiles : toggleProfileSelection(q.id)

\* the Cancel button: setShowScheduleModal(false)
CancelModal ==
  /\ modal.open
  /\ \A t \in timers : t.left > 0
  /\ modal' = [modal EXCEPT !.open = FALSE]
  /\ UNCHANGED <<store, sessionVars, posts, storageError, debounceTimers, timers,
                 ops, fetches, notifs, bulk, createVars, composed, sent, sched,
                 submitted, notesVars, hist>>

\* the ids of a sequence of posts, in their order
IdsOf(ps) == [i \in 1..Len(ps) |-> ps[i].id]

\* a loop that also takes the posts waiting for approval
ApprovedOrWaiting(q) ==
  q.status \in {"Approved", "For Approval"} /\ MonthOf[q.date] = selectedMonth

\* filteredPosts.filter(p => p.status === 'Approved')
ApprovedShown(q) == q.status = "Approved" /\ MonthOf[q.date] = selectedMonth

\* ... and, when Instagram is selected, the posts with valid media only
ApprovedShownWithMedia(q) == ApprovedShown(q) /\ hasValidMedia(q.id)

\* the posts the loop of handleSchedulePosts will go through
approvedPosts(hasInstagram) ==
  IF hasInstagram THEN IdsOf(SelectSeq(posts, ApprovedShownWithMedia))
                  ELSE IdsOf(SelectSeq(posts, ApprovedShown))

\* mediaUrls: post.imageUrl ? [post.imageUrl] : []
ManualMedia(id) == ImageUrl[id]

\* the call of schedulePost for one post of the loop
ManualCall(id, selected) ==
  SentCall(id, "manual", {[id |-> i] : i \in selected}, ManualMedia(id))

\* handleSchedulePosts up to the first await schedulePost; the button is
\* disabled while scheduling, without a selected profile or an Approved post
handleSchedulePosts ==
  /\ isAuthenticated /\ isMasterAccount /\ currentClient # NoClient
  /\ \A t \in timers : t.left > 0
  /\ modal.open /\ ~sched.active
  /\ modal.selectedProfiles # {}
  /\ IdsOf(SelectSeq(posts, ApprovedShown)) # <<>>
  /\ hist.schedules < MaxSchedule
  /\ hist' = [hist EXCEPT !.schedules = @ + 1]
  /\ LET hasInstagram ==
           \E i \in modal.selectedProfiles : \E q \in modal.lateProfiles :
             q.id = i /\ q.platform = "instagram"
         queue == approvedPosts(hasInstagram)
         skipped == Len(IdsOf(SelectSeq(posts, ApprovedShown))) - Len(queue)
     IN IF queue = <<>>
        THEN /\ alerts' = alerts + 1
             /\ UNCHANGED <<sent, sched>>
        ELSE /\ alerts' = alerts + (IF skipped > 0 THEN 1 ELSE 0)
             /\ sched' = [active |-> TRUE, queue |-> queue,
                          platforms |-> modal.selectedProfiles,
                          cc |-> currentClient,
                          successCount |-> 0, errorCount |-> 0]
             /\ sent' = sent \cup {ManualCall(Head(queue), modal.selectedProfiles)}
  /\ UNCHANGED <<store, sessionVars, posts, storageError, debounceTimers, timers,
                 ops, fetches, notifs, bulk, now, editorId, created, composed,
                 modal, submitted, notesVars>>

\* schedulePost answers for the post at the head of the loop.  On success
\* handleUpdatePost(post.id, 'status', 'Posted') runs: optimistic update, the
\* timer of the key replaced by one that will write Posted.  Then the loop
\* calls schedulePost for the next post, or ends: alert, modal closed.
ScheduleAnswer(ok) ==
  /\ sched.active
  /\ \A t \in timers : t.left > 0
  /\ LET id == Head(sched.queue)
         rest == Tail(sched.queue)
         key == timerKey(id, "status")
         tid == hist.edits + 1
         inBurst == \E t \in timers : t.id = id /\ t.field = "status"
     IN
     /\ IF ok
        THEN /\ posts' = MarkPosted(id)
             /\ timers' = {t \in timers : t.tid # debounceTimers[key]} \cup
                          {[tid |-> tid, id |-> id, field |-> "status",
                            value |-> "Posted", isSC |-> FALSE,
                            cc |-> sched.cc, left |-> DebounceMs]}
             /\ debounceTimers' = [debounceTimers EXCEPT ![key] = tid]
             /\ hist' = [hist EXCEPT
                  !.edits = tid,
                  !.burstN[<<id, "status">>] = IF inBurst THEN @ + 1 ELSE 1,
                  !.burstLast[<<id, "status">>] = "Posted",
                  !.burstW[<<id, "status">>] = IF inBurst THEN @ ELSE 0,
                  !.burstWv[<<id, "status">>] = IF inBurst THEN @ ELSE "",
                  !.sedits[id] = @ + 1,
                  !.faEdge = @ \ {id},
                  !.scheduled = @ \cup {id}]
        ELSE UNCHANGED <<posts, timers, debounceTimers, hist>>
     /\ IF rest # <<>>
        THEN /\ sent' = sent \cup {ManualCall(Head(rest), sched.platforms)}
             /\ sched' = [sched EXCEPT
                  !.queue = rest,
                  !.successCount = IF ok THEN @ + 1 ELSE @,
                  !.errorCount = IF ok THEN @ ELSE @ + 1]
             /\ UNCHANGED <<alerts, modal>>
        ELSE /\ alerts' = alerts + 1
             /\ modal' = [modal EXCEPT !.open = FALSE]
             /\ sched' = SchedIdle
             /\ UNCHANGED sent
  /\ UNCHANGED <<store, sessionVars, storageError, ops, fetches, notifs, bulk,
                 now, editorId, created, composed, submitted, notesVars>>

ScheduleAnswerStep == \E ok \in BOOLEAN : ScheduleAnswer(ok)

\* the master account schedules by hand; the posts of the month are Approved
\* or wait for approval
InitManual ==
  \E st \in [PostIds -> {"Approved", "For Approval"}] :
    InitWith([p \in PostIds |-> [status |-> st[p], date |-> "2025-01-10"]])

NextManual ==
  \/ Login
  \/ SelectClient
  \/ FetchQueryStep
  \/ FetchDoneStep
  \/ handleOpenScheduleModal
  \/ ProfilesLoadedStep
  \/ ToggleProfile
  \/ CancelModal
  \/ handleSchedulePosts
  \/ ScheduleAnswerStep
  \/ Advance
  \/ Timer
  \/ DbUpdateStep
  \/ OpResumeStep

SpecManual == InitManual /\ [][NextManual]_vars

\* C24: every media URL passed to the scheduling service, by auto-publish or
\* by the manual Schedule action and whatever profiles are selected, is an
\* http(s) URL; a data URL stored in a post is never sent.
C24_OnlyHttpMediaSent ==
  \A c \in sent : c.media \in {"", "http"}

\* the statuses the in-memory records ps show for a post
StatusIn(ps, id) == {ps[i].status : i \in {j \in 1..Len(ps) : ps[j].id = id}}

\* nothing of the status of p is on its way: no timer, no write, no loop
StatusSettled(p) ==
  /\ ~sched.active
  /\ ~\E t \in timers : t.id = p /\ t.field = "status"
  /\ ~\E o \in ops : o.id = p /\ o.field = "status"

InitSchedule ==
  \E st \in {"Approved", "For Approval"} :
    LET rows == [p \in PostIds |->
                  [status |-> IF p = "p2" THEN st ELSE "Approved",
                   date |-> "2025-01-10"]]
        loaded == [i \in 1..2 |->
                    [id |-> <<"p1", "p2">>[i], status |-> rows[<<"p1", "p2">>[i]].status,
                     date |-> "2025-01-10", client_id |-> "ld"]]
    IN
    /\ store = rows
    /\ isAuthenticated = TRUE
    /\ isMasterAccount = TRUE
    /\ currentClient = "ld"
    /\ showClientSelector = FALSE
    /\ loginError = FALSE
    /\ allClients = Clients
    /\ channels = EffectChannels({}, "ld")
    /\ posts = loaded
    /\ storageError = FALSE
    /\ debounceTimers = [k \in Keys |-> 0]
    /\ timers = {}
    /\ ops = {}
    /\ fetches = {}
    /\ notifs = 0
    /\ bulk = [active |-> FALSE, pending |-> {}, cc |-> NoClient]
    /\ alerts = 0
    /\ now = 0
    /\ editorId = ""
    /\ created = <<>>
    /\ composed = NoContent
    /\ sent = {}
    /\ modal = ModalClosed
    /\ sched = SchedIdle
    /\ noteRows = NoNotes
    /\ job = JobIdle
    /\ emailed = {}
    /\ submitted = MasterPin
    /\ hist = [HistInit EXCEPT !.selects = 1, !.sel["ld"] = <<"p1", "p2">>]

NextSchedule ==
  \/ FetchQueryStep
  \/ FetchDoneStep
  \/ handleOpenScheduleModal
  \/ ProfilesLoadedStep
  \/ ToggleProfile
  \/ handleSchedulePosts
  \/ ScheduleAnswerStep
  \/ Advance
  \/ Timer
  \/ DbUpdateStep
  \/ OpResumeStep

SpecSchedule == InitSchedule /\ [][NextSchedule]_vars

\* ---------------------------------------------------------------------------
\* Approve All next to the manual Schedule action; no status is edited by hand
\* the posts that were scheduled, and made Posted, in an earlier session
PostedBefore == {"p1"}

InitRepost ==
  InitWith([p \in PostIds |->
              [status |-> IF p \in PostedBefore THEN "Posted" ELSE "For Approval",
               date |-> "2025-01-10"]])

NextRepost ==
  \/ Login
  \/ SelectClient
  \/ FetchQueryStep
  \/ FetchDoneStep
  \/ ApproveAllClick
  \/ BulkDbStep
  \/ BulkDone
  \/ handleOpenScheduleModal
  \/ ProfilesLoadedStep
  \/ ToggleProfile
  \/ CancelModal
  \/ handleSchedulePosts
  \/ ScheduleAnswerStep
  \/ Advance
  \/ Timer
  \/ DbUpdateStep
  \/ OpResumeStep

SpecRepost == InitRepost /\ [][NextRepost]_vars

\* C23: a post whose status is Posted is never passed to the scheduling
\* service again, by the manual Schedule action or by auto-publish, after any
\* sequence of Approve All, reload and Schedule that holds no manual edit of
\* its status.
C23_PostedNeverSentAgain ==
  \A c \in sent : c.id \notin PostedBefore

\* ---------------------------------------------------------------------------
\* auto-publish next to the manual Schedule action
NextDouble ==
  \/ Login
  \/ SelectClient
  \/ FetchQueryStep
  \/ FetchDoneStep
  \/ EditStatus
  \/ handleOpenScheduleModal
  \/ ProfilesLoadedStep
  \/ handleSchedulePosts
  \/ ScheduleAnswerStep
  \/ Advance
  \/ Timer
  \/ DbUpdateStep
  \/ OpResumeStep
  \/ OpProfilesStep
  \/ OpScheduleStep
  \/ OpPostedStep

SpecDouble == Init /\ [][NextDouble]_vars

\* C30: within one session a record that enters status Approved once is
\* passed to the scheduling service at most once, counting auto-publish and
\* the manual Schedule action together, also when Schedule is clicked while
\* the call of auto-publish for the record is in flight.
C30_ScheduledAtMostOnce ==
  \A p \in PostIds :
    (hist.edges[p] <= 1 /\ p \notin hist.otherStatus) => Cardinality(SentOf(p)) <= 1

\* ---------------------------------------------------------------------------
\* Client notes and the notification job (api/notify-notes)
MaxNoteEdits == 2

MaxRuns == 2

NoteTexts == {"", "a", "b"}

\* BEFORE UPDATE trigger update_notes_timestamp on a row whose notes are set
\* to v: a changed, non-empty text stamps the row and resets notes_notified
update_notes_timestamp(old, v) ==
  IF old.notes # v /\ v # ""
  THEN [notes |-> v, fresh |-> TRUE, notified |-> FALSE]
  ELSE [old EXCEPT !.notes = v]

\* a client's write of the notes of a post reaches the table
WriteNotes(p, v) ==
  /\ hist.noteEdits < MaxNoteEdits
  /\ noteRows' = [noteRows EXCEPT ![p] = update_notes_timestamp(noteRows[p], v)]
  /\ hist' = [hist EXCEPT !.noteEdits = @ + 1]
  /\ UNCHANGED <<store, sessionVars, posts, storageError, debounceTimers, timers,
                 ops, fetches, notifs, bulk, createVars, publishVars, job,
                 emailed, submitted>>

\* twenty minutes have passed since the notes of a post were stamped
NotesAge(p) ==
  /\ noteRows[p].fresh
  /\ noteRows' = [noteRows EXCEPT ![p].fresh = FALSE]
  /\ UNCHANGED <<store, sessionVars, posts, storageError, debounceTimers, timers,
                 ops, fetches, notifs, bulk, createVars, publishVars, job,
                 emailed, submitted, hist>>

\* the rows the select of the job returns: not notified, notes not empty,
\* stamped more than twenty minutes ago; each with the text it has now
Unnotified ==
  {[id |-> p, notes |-> noteRows[p].notes] :
     p \in {q \in PostIds : /\ ~noteRows[q].notified
                            /\ noteRows[q].notes # ""
                            /\ ~noteRows[q].fresh}}

\* the handler up to the request to the mail service: the select fails or
\* finds nothing, and the run ends, or the email is built from the rows found
JobSelect(ok) ==
  /\ job.pc = "idle"
  /\ hist.runs < MaxRuns
  /\ hist' = [hist EXCEPT !.runs = @ + 1]
  /\ IF ok /\ Unnotified # {}
     THEN job' = [pc |-> "email", posts |-> Unnotified]
     ELSE UNCHANGED job
  /\ UNCHANGED <<store, sessionVars, posts, storageError, debounceTimers, timers,
                 ops, fetches, notifs, bulk, createVars, publishVars, noteRows,
                 emailed, submitted>>

\* the mail service answers; on success the update of notes_notified is sent
JobEmail(ok) ==
  /\ job.pc = "email"
  /\ IF ok
     THEN /\ emailed' = emailed \cup job.posts
          /\ job' = [job EXCEPT !.pc = "mark"]
     ELSE /\ job' = JobIdle
          /\ UNCHANGED emailed
  /\ UNCHANGED <<store, sessionVars, posts, storageError, debounceTimers, timers,
                 ops, fetches, notifs, bulk, createVars, publishVars, noteRows,
                 submitted, hist>>

\* update({ notes_notified: true }).in('id', postIds) reaches the table; the
\* trigger leaves the rows alone, their notes do not change
JobMark(ok) ==
  /\ job.pc = "mark"
  /\ job' = JobIdle
  /\ IF ok
     THEN noteRows' = [p \in PostIds |->
                         IF \E r \in job.posts : r.id = p
                         THEN [noteRows[p] EXCEPT !.notified = TRUE]
                         ELSE noteRows[p]]
     ELSE UNCHANGED noteRows
  /\ UNCHANGED <<store, sessionVars, posts, storageError, debounceTimers, timers,
                 ops, fetches, notifs, bulk, createVars, publishVars, emailed,
                 submitted, hist>>

NextNotes ==
  \/ \E p \in PostIds, v \in NoteTexts : WriteNotes(p, v)
  \/ \E p \in PostIds : NotesAge(p)
  \/ \E ok \in BOOLEAN : JobSelect(ok)
  \/ \E ok \in BOOLEAN : JobEmail(ok)
  \/ \E ok \in BOOLEAN : JobMark(ok)

SpecNotes == Init /\ [][NextNotes]_vars

\* C25: whenever a post is marked notes_notified, the notes it has now, if
\* not empty, were included in an email that was sent; also when the notes
\* are edited while a run of the job is between its select and its update.
C25_NotifiedNotesWereEmailed ==
  \A p \in PostIds :
    (noteRows[p].notified /\ noteRows[p].notes # "") =>
      [id |-> p, notes |-> noteRows[p].notes] \in emailed

\* ---------------------------------------------------------------------------
\* fetches that overlap: a second fetchPosts is called while the response of
\* an earlier one is outstanding
MaxOverlap == 2

OverlapRoom == Cardinality(fetches) < MaxOverlap

\* a change notification arrives while a fetch may be outstanding
NotifDeliverOverlap == NotifDeliverWhen(OverlapRoom)

NextSwitch ==
  \/ Login
  \/ \E c \in Clients : selectClientWhen(c, OverlapRoom)
  \/ OpenClientSelector
  \/ Foreign
  \/ NotifDeliverOverlap
  \/ FetchQueryStep
  \/ FetchDoneStep

SpecSwitch == Init /\ [][NextSwitch]_vars

\* C27: in a super session, once the client has been switched and every
\* outstanding fetch has completed, the in-memory records are records of the
\* current client only, in whatever order the responses arrived.
C27_OnlyCurrentTenantAfterSwitch ==
  (isMasterAccount /\ currentClient # NoClient /\ fetches = {}) =>
    \A i \in 1..Len(posts) : posts[i].client_id = currentClient

\* edits, writes of other sessions of the tenant and notifications whose
\* fetches may overlap; every write of the session is accepted by the
\* database and no fetch fails
NextSync ==
  \/ Login
  \/ FetchQueryStep
  \/ FetchDoneStep
  \/ NotifDeliverOverlap
  \/ SameTenantWrite
  \/ EditDate
  \/ Advance
  \/ Timer
  \/ \E o \in ops : DbUpdate(o, TRUE)
  \/ OpResumeStep

SpecSync == Init /\ [][NextSync]_vars

\* nothing is on its way: no timer, no write, no fetch, no notification
Settled ==
  /\ isAuthenticated /\ currentClient # NoClient
  /\ timers = {} /\ ops = {} /\ fetches = {} /\ notifs = 0

\* C28: when the session has made its edits, every write has succeeded,
\* every notification was delivered and every fetch has completed, the
\* in-memory records are the rows the store holds for the session's client,
\* in whatever order timers fired and responses arrived.
C28_SettledViewEqualsStore ==
  Settled => posts \in {RowsToPosts(s) : s \in QueryResults(currentClient)}
====
